---- MODULE Spec2Model ----
(***************************************************************************)
(* A model of src/app.py: the per-user relay between a Telegram chat and   *)
(* an Ollama endpoint reached through an ngrok tunnel.                     *)
(*                                                                         *)
(* Python strings are sequences of tokens.  URLs are spelled character by  *)
(* character, because set_ngrok and status inspect and rewrite them; fixed *)
(* reply texts and message texts are spelled with one token per fragment.  *)
(* A Python value is a record [t |-> type name, v |-> payload].            *)
(***************************************************************************)
EXTENDS Integers, Sequences, FiniteSets, TLC

VARIABLES
    user_data,   \* context.user_data of every user: a dict per user
    queue,       \* updates fetched by run_polling, not yet handled
    pc,          \* position of the handler coroutine being run
    cur,         \* the update that handler is processing
    response,    \* handle_message's local `response`
    calls,       \* requests.post calls made while handling cur
    sent,        \* values passed to reply_text while handling cur
    log          \* history variable: every record appended for a user since
                 \* the last /reset, never truncated

vars == <<user_data, queue, pc, cur, response, calls, sent, log>>

----------------------------------------------------------------------------
(* Bounds of the model.                                                    *)

\* messages handled (over all users, since their last reset) in Spec
MaxMsgs == 4
\* messages handled (over all users, since their last reset) in SpecCap
MaxCapMsgs == 11
\* messages handled (over all users, since their last reset) in SpecBind
MaxBindMsgs == 1

(* Program constants.                                                      *)
MAX_TURNS == 20
CONTEXT_TURNS == 6
HTTP_OK == 200
TIMEOUT == 60

Users == {"u1", "u2"}

----------------------------------------------------------------------------
(* Python strings and lists.                                               *)

\* s.startswith(p)
startswith(s, p) == Len(s) >= Len(p) /\ SubSeq(s, 1, Len(p)) = p

\* s.rstrip(c) for a single character c: every trailing c is removed
RECURSIVE rstrip(_, _)
rstrip(s, c) ==
    IF s # <<>> /\ s[Len(s)] = c THEN rstrip(SubSeq(s, 1, Len(s) - 1), c) ELSE s

\* lst[-n:] for n > 0
LastN(lst, n) == IF Len(lst) <= n THEN lst ELSE SubSeq(lst, Len(lst) - n + 1, Len(lst))

\* lst[:n]
FirstN(lst, n) == IF Len(lst) <= n THEN lst ELSE SubSeq(lst, 1, n)

\* the concatenation of a list of strings
RECURSIVE Concat(_)
Concat(ss) == IF ss = <<>> THEN <<>> ELSE Head(ss) \o Concat(Tail(ss))

\* the decimal digits of n
RECURSIVE Digits(_)
Digits(n) ==
    LET d == <<"0", "1", "2", "3", "4", "5", "6", "7", "8", "9">>[(n % 10) + 1]
    IN  IF n < 10 THEN <<d>> ELSE Digits(n \div 10) \o <<d>>

(* Python values.                                                          *)
PyStr(s) == [t |-> "str", v |-> s]
PyNone == [t |-> "NoneType", v |-> <<>>]
PyInt(n) == [t |-> "int", v |-> Digits(n)]
NoValue == [t |-> "unset", v |-> <<>>]

\* what an f-string renders for {x}
format_value(x) ==
    CASE x.t = "str" -> x.v
      [] x.t = "NoneType" -> <<"None">>
      [] OTHER -> x.v

(* dicts: a function from the keys present to their values                 *)
EmptyDict == <<>>
HasKey(d, k) == k \in DOMAIN d
SetKey(d, k, x) == (k :> x) @@ d

----------------------------------------------------------------------------
(* Texts of the program.                                                   *)

SYSTEM_PROMPT == <<"You are Advi, ... in a text conversation with their best friend.">>

START_TEXT == <<"Hey! It's Advi. To connect me to your Ollama, send: /setngrok <your_ngrok_url>">>
NO_ARGS_TEXT == <<"Hey, please provide the ngrok URL: /setngrok https://your-ngrok-url.ngrok.io">>
INVALID_URL_TEXT == <<"That doesn't look like a valid URL. It should start with https://">>
HELP_TEXT == <<"Here's what I can do: ...">>
NOT_SET_UP_TEXT == <<"You haven't set up the connection yet. Use /setngrok <your_ngrok_url> first!">>
RESET_TEXT == <<"Okay, let's start fresh! What's on your mind?">>
NEED_SETUP_TEXT == <<"You need to set up the connection first! Send: /setngrok <your_ngrok_url>">>

NO_REPLY_TEXT == <<"Sorry, I had trouble thinking of what to say.">>
TROUBLE_TEXT == <<"I'm having trouble connecting right now. Can you try again in a moment?">>
TOO_LONG_TEXT == <<"Sorry, that took too long. Can you ask me again?">>
CANT_CONNECT_TEXT == <<"I can't connect to Ollama. Please check if: 1. Ollama is running 2. ngrok tunnel is active 3. The URL is correct (/setngrok to update)">>
WENT_WRONG_TEXT == <<"Something went wrong. Let me try to help you in a moment.">>

OLLAMA_MODEL == <<"llama3.2:3b">>

HTTP == <<"h", "t", "t", "p">>
API_GENERATE == <<"/", "a", "p", "i", "/", "g", "e", "n", "e", "r", "a", "t", "e">>

----------------------------------------------------------------------------
(* The network: what requests.post and response.json() can do.             *)

\* the classes an exception of class e is an instance of (requests.exceptions)
ExcBases(e) ==
    CASE e = "ReadTimeout" -> {"ReadTimeout", "Timeout", "RequestException", "Exception"}
      [] e = "ConnectTimeout" ->
            {"ConnectTimeout", "ConnectionError", "Timeout", "RequestException", "Exception"}
      [] e = "ConnectionError" -> {"ConnectionError", "RequestException", "Exception"}
      [] e = "SSLError" -> {"SSLError", "ConnectionError", "RequestException", "Exception"}
      [] e = "InvalidSchema" -> {"InvalidSchema", "RequestException", "ValueError", "Exception"}
      [] e = "TooManyRedirects" -> {"TooManyRedirects", "RequestException", "Exception"}
      [] e = "JSONDecodeError" -> {"JSONDecodeError", "RequestException", "ValueError", "Exception"}
      [] e = "AttributeError" -> {"AttributeError", "Exception"}
      [] OTHER -> {e, "Exception"}

isinstance(e, cls) == cls \in ExcBases(e)

\* bodies of a response: a JSON object, another JSON value, or no JSON at all
JsonObject(d) == [json |-> "object", obj |-> d]
JsonArray == [json |-> "array", obj |-> EmptyDict]
NotJson == [json |-> "invalid", obj |-> EmptyDict]

Raises(e) == [raises |-> e, status_code |-> 0, body |-> NotJson]
Responds(code, b) == [raises |-> "none", status_code |-> code, body |-> b]

HEY == <<"hey!">>

PostExceptions ==
    {"ReadTimeout", "ConnectTimeout", "ConnectionError", "SSLError", "InvalidSchema",
     "TooManyRedirects"}

Bodies ==
    { JsonObject("response" :> PyStr(HEY)),
      JsonObject("response" :> PyStr(<<>>)),
      JsonObject("response" :> PyNone),
      JsonObject("response" :> PyInt(42)),
      JsonObject("error" :> PyStr(<<"model not found">>)),
      JsonObject(EmptyDict),
      JsonArray,
      NotJson }

StatusCodes == {200, 204, 404, 500}

\* every outcome of the call the model draws from
Outcomes ==
    { Raises(e) : e \in PostExceptions }
        \cup { Responds(code, b) : code \in StatusCodes, b \in Bodies }

----------------------------------------------------------------------------
(* call_ollama                                                             *)

\* the window taken from the head of the list
context_window_from_head(conversation_history) == FirstN(conversation_history, CONTEXT_TURNS)

\* conversation_history[-6:]
context_window(conversation_history) == LastN(conversation_history, CONTEXT_TURNS)

\* the prompt built from the persona, the window and the new input
full_prompt(prompt, conversation_history) ==
    SYSTEM_PROMPT \o <<"\n\n">>
        \o Concat([i \in 1..Len(context_window(conversation_history)) |->
                      context_window(conversation_history)[i] \o <<"\n\n">>])
        \o <<"Akhil: ">> \o prompt \o <<"\nAdvi: ">>

\* the arguments of requests.post
post_request(prompt, conversation_history, ngrok_url, model) ==
    [url |-> ngrok_url,
     model |-> model,
     prompt |-> full_prompt(prompt, conversation_history),
     stream |-> FALSE,
     timeout |-> TIMEOUT]

\* the except clauses with ConnectionError tried before Timeout
except_clauses_connection_first(e) ==
    IF isinstance(e, "ConnectionError") THEN PyStr(CANT_CONNECT_TEXT)
    ELSE IF isinstance(e, "Timeout") THEN PyStr(TOO_LONG_TEXT)
    ELSE PyStr(WENT_WRONG_TEXT)

\* the except clauses, tried in the order they are written
except_clauses(e) ==
    IF isinstance(e, "Timeout") THEN PyStr(TOO_LONG_TEXT)
    ELSE IF isinstance(e, "ConnectionError") THEN PyStr(CANT_CONNECT_TEXT)
    ELSE PyStr(WENT_WRONG_TEXT)

\* result.get('response', default)
dict_get(d, k, default) == IF HasKey(d, k) THEN d[k] ELSE default

\* the body of the try block once requests.post has returned `net`
on_response(net) ==
    IF net.status_code = HTTP_OK
    THEN IF net.body.json = "invalid" THEN except_clauses("JSONDecodeError")
         ELSE IF net.body.json # "object" THEN except_clauses("AttributeError")
         ELSE dict_get(net.body.obj, "response", PyStr(NO_REPLY_TEXT))
    ELSE PyStr(TROUBLE_TEXT)

\* the value call_ollama returns when the network does `net`
call_ollama(net) ==
    IF net.raises # "none" THEN except_clauses(net.raises) ELSE on_response(net)

----------------------------------------------------------------------------
(* Updates and the state of a handler run.                                 *)

Update(u, h, a, txt) == [user |-> u, handler |-> h, args |-> a, text |-> txt]
NoUpdate == Update("nobody", "none", <<>>, <<>>)

\* the user's history list, empty while the key is absent
history(u) ==
    IF HasKey(user_data[u], "conversation_history")
    THEN user_data[u]["conversation_history"] ELSE <<>>

\* 'ngrok_url' in context.user_data
is_bound(u) == HasKey(user_data[u], "ngrok_url")

RECURSIVE SumLen(_, _)
SumLen(f, S) ==
    IF S = {} THEN 0
    ELSE LET x == CHOOSE y \in S : TRUE IN Len(f[x]) + SumLen(f, S \ {x})

\* records appended for all users since their last reset
TotalLog == SumLen(log, Users)

Init ==
    /\ user_data = [u \in Users |-> EmptyDict]
    /\ queue = <<>>
    /\ pc = "idle"
    /\ cur = NoUpdate
    /\ response = NoValue
    /\ calls = <<>>
    /\ sent = <<>>
    /\ log = [u \in Users |-> <<>>]

\* run_polling fetches an update; it waits in the queue for its handler
\* the newest update is put in front of the waiting ones
Enqueue_at_front(upd) ==
    /\ queue' = <<upd>> \o queue
    /\ UNCHANGED <<user_data, pc, cur, response, calls, sent, log>>

Enqueue(upd) ==
    /\ queue' = Append(queue, upd)
    /\ UNCHANGED <<user_data, pc, cur, response, calls, sent, log>>

\* the application takes the next update when no handler is running
Taking(h) == pc = "idle" /\ queue # <<>> /\ Head(queue).handler = h

\* a command handler runs to its end: it replies `text` and leaves `ud`
Command(ud, lg, text) ==
    /\ cur' = Head(queue)
    /\ queue' = Tail(queue)
    /\ user_data' = ud
    /\ log' = lg
    /\ sent' = <<PyStr(text)>>
    /\ pc' = "done"
    /\ UNCHANGED <<response, calls>>

----------------------------------------------------------------------------
(* The command handlers.                                                   *)

start == Taking("start") /\ Command(user_data, log, START_TEXT)

help_command == Taking("help") /\ Command(user_data, log, HELP_TEXT)

\* the argument with one trailing slash removed at most
strip_url_once(raw) ==
    IF raw # <<>> /\ raw[Len(raw)] = "/" THEN SubSeq(raw, 1, Len(raw) - 1) ELSE raw

\* context.args[0].rstrip('/')
strip_url(raw) == rstrip(raw, "/")

\* ngrok_url.startswith('http')
url_is_valid(ngrok_url) == startswith(ngrok_url, HTTP)

\* f"{ngrok_url}/api/generate"
endpoint_of(ngrok_url) == ngrok_url \o API_GENERATE

connected_text(ngrok_url) ==
    <<"Got it! Connected to: ">> \o ngrok_url
        \o <<" Now we can chat anytime! How are you doing?">>

\* a bind that starts a fresh session: the stored history is dropped
set_ngrok_forgets_history ==
    /\ Taking("set_ngrok")
    /\ LET upd == Head(queue)
           ngrok_url == strip_url(upd.args[1])
       IN  IF upd.args = <<>>
           THEN Command(user_data, log, NO_ARGS_TEXT)
           ELSE IF ~url_is_valid(ngrok_url)
           THEN Command(user_data, log, INVALID_URL_TEXT)
           ELSE Command([user_data EXCEPT
                            ![upd.user] = SetKey(EmptyDict, "ngrok_url", endpoint_of(ngrok_url))],
                        log, connected_text(ngrok_url))

set_ngrok ==
    /\ Taking("set_ngrok")
    /\ LET upd == Head(queue)
           ngrok_url == strip_url(upd.args[1])
       IN  IF upd.args = <<>>
           THEN Command(user_data, log, NO_ARGS_TEXT)
           ELSE IF ~url_is_valid(ngrok_url)
           THEN Command(user_data, log, INVALID_URL_TEXT)
           ELSE Command([user_data EXCEPT
                            ![upd.user] = SetKey(@, "ngrok_url", endpoint_of(ngrok_url))],
                        log, connected_text(ngrok_url))

\* s.replace(old, ''): every occurrence, found left to right, is removed
RECURSIVE remove_all(_, _)
remove_all(s, old) ==
    IF s = <<>> THEN <<>>
    ELSE IF startswith(s, old) THEN remove_all(SubSeq(s, Len(old) + 1, Len(s)), old)
    ELSE <<Head(s)>> \o remove_all(Tail(s), old)

status_text(ngrok_url) ==
    <<"Connected to: ">> \o remove_all(ngrok_url, API_GENERATE)
        \o <<" Everything's working!">>

status ==
    /\ Taking("status")
    /\ LET u == Head(queue).user
       IN  IF ~is_bound(u)
           THEN Command(user_data, log, NOT_SET_UP_TEXT)
           ELSE Command(user_data, log, status_text(user_data[u]["ngrok_url"]))

\* a reset that clears the whole dict, the endpoint with it
reset_data_clears_all(d) == EmptyDict

\* the dict after the body of reset
reset_data(d) ==
    IF HasKey(d, "conversation_history") THEN SetKey(d, "conversation_history", <<>>) ELSE d

reset ==
    /\ Taking("reset")
    /\ LET u == Head(queue).user
       IN  Command([user_data EXCEPT ![u] = reset_data(@)],
                   [log EXCEPT ![u] = <<>>], RESET_TEXT)

----------------------------------------------------------------------------
(* handle_message, one action per step.                                    *)

\* the unbound branch without its return
after_need_setup_falls_through == "call"

\* where the handler goes after the reply of the unbound branch: it returns
after_need_setup == "done"

\* the user's dict once the history list exists
with_history(d) ==
    IF HasKey(d, "conversation_history") THEN d ELSE SetKey(d, "conversation_history", <<>>)

\* the check of the binding, the creation of the history list, the typing action
handle_message ==
    /\ Taking("handle_message")
    /\ LET u == Head(queue).user
       IN  IF ~is_bound(u)
           THEN /\ cur' = Head(queue)
                /\ queue' = Tail(queue)
                /\ sent' = <<PyStr(NEED_SETUP_TEXT)>>
                /\ pc' = after_need_setup
                /\ UNCHANGED <<user_data, log, response, calls>>
           ELSE /\ cur' = Head(queue)
                /\ queue' = Tail(queue)
                /\ user_data' = [user_data EXCEPT ![u] = with_history(@)]
                /\ pc' = "call"
                /\ UNCHANGED <<log, response, calls, sent>>

\* response = call_ollama(...), with the network doing one of `outs`
handle_message_call(outs) ==
    /\ pc = "call"
    /\ \E net \in outs :
          /\ response' = call_ollama(net)
          /\ calls' = Append(calls,
                 [request |-> post_request(cur.text,
                                  user_data[cur.user]["conversation_history"],
                                  user_data[cur.user]["ngrok_url"], OLLAMA_MODEL),
                  outcome |-> net])
    /\ pc' = "append_user"
    /\ UNCHANGED <<user_data, queue, cur, sent, log>>

\* f"Akhil: {user_message}"
user_record(user_message) == <<"Akhil: ">> \o user_message

\* f"Advi: {response}"
assistant_record(resp) == <<"Advi: ">> \o format_value(resp)

\* an append to one list shared by all users
AppendRecord_shared(record, next) ==
    /\ user_data' = [u \in Users |->
                        IF HasKey(user_data[u], "conversation_history")
                        THEN [user_data[u] EXCEPT !["conversation_history"] = Append(@, record)]
                        ELSE user_data[u]]
    /\ log' = [log EXCEPT ![cur.user] = Append(@, record)]
    /\ pc' = next
    /\ UNCHANGED <<queue, cur, response, calls, sent>>

\* conversation_history.append(record)
AppendRecord(record, next) ==
    /\ user_data' = [user_data EXCEPT
                        ![cur.user]["conversation_history"] = Append(@, record)]
    /\ log' = [log EXCEPT ![cur.user] = Append(@, record)]
    /\ pc' = next
    /\ UNCHANGED <<queue, cur, response, calls, sent>>

append_user == pc = "append_user" /\ AppendRecord(user_record(cur.text), "append_assistant")

append_assistant ==
    pc = "append_assistant" /\ AppendRecord(assistant_record(response), "truncate")

\* the truncation with its slice one record too long
truncated_keeps_one_more(conversation_history) ==
    IF Len(conversation_history) > MAX_TURNS
    THEN LastN(conversation_history, MAX_TURNS + 1)
    ELSE conversation_history

\* the truncation keeping the head of the list instead of its tail
truncated_keeps_oldest(conversation_history) ==
    IF Len(conversation_history) > MAX_TURNS
    THEN FirstN(conversation_history, MAX_TURNS)
    ELSE conversation_history

\* the truncation keeping an odd number of records
truncated_keeps_one_less(conversation_history) ==
    IF Len(conversation_history) > MAX_TURNS
    THEN LastN(conversation_history, MAX_TURNS - 1)
    ELSE conversation_history

\* the list kept by the truncation
truncated(conversation_history) ==
    IF Len(conversation_history) > MAX_TURNS
    THEN LastN(conversation_history, MAX_TURNS)
    ELSE conversation_history

\* a handler that goes on to the reply without truncating
truncate_skipped ==
    /\ pc = "truncate"
    /\ pc' = "reply"
    /\ UNCHANGED <<user_data, queue, cur, response, calls, sent, log>>

truncate ==
    /\ pc = "truncate"
    /\ user_data' = [user_data EXCEPT
                        ![cur.user]["conversation_history"] = truncated(@)]
    /\ pc' = "reply"
    /\ UNCHANGED <<queue, cur, response, calls, sent, log>>

\* a reply that is sent only when the text is not empty
reply_skips_empty ==
    /\ pc = "reply"
    /\ sent' = IF response = PyStr(<<>>) THEN sent ELSE Append(sent, response)
    /\ pc' = "done"
    /\ UNCHANGED <<user_data, queue, cur, response, calls, log>>

\* await update.message.reply_text(response)
reply ==
    /\ pc = "reply"
    /\ sent' = Append(sent, response)
    /\ pc' = "done"
    /\ UNCHANGED <<user_data, queue, cur, response, calls, log>>

\* the handler coroutine returns; its locals are gone
Return ==
    /\ pc = "done"
    /\ pc' = "idle"
    /\ cur' = NoUpdate
    /\ response' = NoValue
    /\ calls' = <<>>
    /\ sent' = <<>>
    /\ UNCHANGED <<user_data, queue, log>>

----------------------------------------------------------------------------
(* The updates the specifications deliver.                                 *)

HELLO == <<"hello">>

HTTPS_X == <<"h", "t", "t", "p", "s", ":", "/", "/", "x">>
HTTP_Y == <<"h", "t", "t", "p", ":", "/", "/", "y">>

\* the arguments of /setngrok in Spec
SessionArgs == { <<>>, <<HTTPS_X>>, <<HTTP_Y \o <<"/">> >>, << <<"x">> >> }

\* what the network does in Spec
SessionOutcomes ==
    { Responds(200, JsonObject("response" :> PyStr(HEY))),
      Responds(200, JsonObject("response" :> PyNone)),
      Raises("ReadTimeout") }

SessionUpdates ==
    { Update(u, h, <<>>, <<>>) : u \in Users, h \in {"start", "help", "status", "reset"} }
        \cup { Update(u, "set_ngrok", a, <<>>) : u \in Users, a \in SessionArgs }
        \cup { Update(u, "handle_message", <<>>, HELLO) : u \in Users }

\* the next update arrives once the previous one has been handled
Receive ==
    /\ pc = "idle" /\ queue = <<>>
    /\ \E upd \in SessionUpdates :
          /\ upd.handler = "handle_message" => TotalLog < 2 * MaxMsgs
          /\ Enqueue(upd)

\* the call made again for as long as requests.post raises
handle_message_call_retrying(outs) ==
    /\ pc = "call"
    /\ \E net \in outs :
          /\ response' = call_ollama(net)
          /\ calls' = Append(calls,
                 [request |-> post_request(cur.text,
                                  user_data[cur.user]["conversation_history"],
                                  user_data[cur.user]["ngrok_url"], OLLAMA_MODEL),
                  outcome |-> net])
          /\ pc' = IF net.raises # "none" /\ Len(calls) < 2 THEN "call" ELSE "append_user"
    /\ UNCHANGED <<user_data, queue, cur, sent, log>>

Call_retrying == handle_message_call_retrying(SessionOutcomes)

Call == handle_message_call(SessionOutcomes)

Next ==
    \/ Receive
    \/ start
    \/ help_command
    \/ set_ngrok
    \/ status
    \/ reset
    \/ handle_message
    \/ Call
    \/ append_user
    \/ append_assistant
    \/ truncate
    \/ reply
    \/ Return

Spec == Init /\ [][Next]_vars

----------------------------------------------------------------------------
(* SpecCap: long conversations, every message with a text of its own.      *)

\* the text of the next message of user u: its number since the last reset
NumberedText(u) == <<"m">> \o Digits(Len(log[u]) \div 2 + 1)

CapOutcomes == { Responds(200, JsonObject("response" :> PyStr(HEY))), Raises("ReadTimeout") }

ReceiveCap ==
    /\ pc = "idle" /\ queue = <<>>
    /\ \E u \in Users :
          \/ Enqueue(Update(u, "reset", <<>>, <<>>))
          \/ Enqueue(Update(u, "set_ngrok", <<HTTPS_X>>, <<>>))
          \/ /\ TotalLog < 2 * MaxCapMsgs
             /\ Enqueue(Update(u, "handle_message", <<>>, NumberedText(u)))

CallCap == handle_message_call(CapOutcomes)

NextCap ==
    \/ ReceiveCap
    \/ set_ngrok
    \/ reset
    \/ handle_message
    \/ CallCap
    \/ append_user
    \/ append_assistant
    \/ truncate
    \/ reply
    \/ Return

SpecCap == Init /\ [][NextCap]_vars

----------------------------------------------------------------------------
(* SpecBind: /setngrok with many spellings of the URL.                     *)

SCHEME_HTTP == <<"h", "t", "t", "p", ":", "/", "/">>
SCHEME_HTTPS == <<"h", "t", "t", "p", "s", ":", "/", "/">>
SCHEME_FTP == <<"f", "t", "p", ":", "/", "/">>

\* x, httpx, http://x, https://x, ftp://x; with and without a path that is
\* /api/generate; with no, one or two trailing slashes
RawUrls ==
    { prefix \o <<"x">> \o path \o trail :
        prefix \in {<<>>, HTTP, SCHEME_HTTP, SCHEME_HTTPS, SCHEME_FTP},
        path \in {<<>>, API_GENERATE},
        trail \in {<<>>, <<"/">>, <<"/", "/">>} }

BindOutcomes == { Responds(200, JsonObject("response" :> PyStr(HEY))) }

BindUpdates ==
    { Update(u, h, <<>>, <<>>) : u \in Users, h \in {"status", "reset", "set_ngrok"} }
        \cup { Update(u, "set_ngrok", <<raw>>, <<>>) : u \in Users, raw \in RawUrls }
        \cup { Update(u, "handle_message", <<>>, HELLO) : u \in Users }

ReceiveBind ==
    /\ pc = "idle" /\ queue = <<>>
    /\ \E upd \in BindUpdates :
          /\ upd.handler = "handle_message" => TotalLog < 2 * MaxBindMsgs
          /\ Enqueue(upd)

CallBind == handle_message_call(BindOutcomes)

NextBind ==
    \/ ReceiveBind
    \/ set_ngrok
    \/ status
    \/ reset
    \/ handle_message
    \/ CallBind
    \/ append_user
    \/ append_assistant
    \/ truncate
    \/ reply
    \/ Return

SpecBind == Init /\ [][NextBind]_vars

----------------------------------------------------------------------------
(* SpecClient: call_ollama on every outcome of the network, called by      *)
(* handle_message for a bound user with some conversation behind them.     *)

\* the history after n exchanges that were all answered with HEY
RECURSIVE Exchanges(_)
Exchanges(n) ==
    IF n = 0 THEN <<>>
    ELSE Exchanges(n - 1)
            \o <<user_record(<<"m">> \o Digits(n)), assistant_record(PyStr(HEY))>>

ClientHistories == { Exchanges(0), Exchanges(1), Exchanges(4), truncated(Exchanges(11)) }

InitClient ==
    /\ \E h \in ClientHistories :
          /\ user_data = [u \in Users |->
                 IF u = "u1"
                 THEN SetKey(SetKey(EmptyDict, "ngrok_url", endpoint_of(HTTPS_X)),
                             "conversation_history", h)
                 ELSE EmptyDict]
          /\ log = [u \in Users |-> IF u = "u1" THEN h ELSE <<>>]
    /\ \E txt \in {HELLO, <<"bye">>} : cur = Update("u1", "handle_message", <<>>, txt)
    /\ queue = <<>>
    /\ pc = "call"
    /\ response = NoValue
    /\ calls = <<>>
    /\ sent = <<>>

CallClient == handle_message_call(Outcomes)

NextClient ==
    \/ CallClient
    \/ append_user
    \/ append_assistant
    \/ truncate
    \/ reply

SpecClient == InitClient /\ [][NextClient]_vars

----------------------------------------------------------------------------
(* SpecQueue: updates arrive while a handler runs and wait in the queue.   *)
(* Every message carries its sender and its number.                        *)

\* updates that may wait in the queue
MaxQueue == 2
\* the highest number a message gets in SpecQueue
MaxQueueMsgs == 2

\* the number spelled by decimal digits
RECURSIVE Number(_)
Number(ds) ==
    IF ds = <<>> THEN 0
    ELSE 10 * Number(SubSeq(ds, 1, Len(ds) - 1))
            + (CHOOSE d \in 0..9 : Digits(d) = <<ds[Len(ds)]>>)

\* the text of message n of user u
QueueText(u, n) == <<u, "#">> \o Digits(n)

\* the number in such a text
NumberOf(txt) == Number(SubSeq(txt, 3, Len(txt)))

\* the numbers of the messages of u waiting in the queue, in queue order
QueueNumbers(u) ==
    LET mine == SelectSeq(queue, LAMBDA x : x.user = u /\ x.handler = "handle_message")
    IN  [i \in 1..Len(mine) |-> NumberOf(mine[i].text)]

\* the numbers of the messages of u whose user record is in the log
LogNumbers(u) ==
    [i \in 1..((Len(log[u]) + 1) \div 2) |-> NumberOf(Tail(log[u][2 * i - 1]))]

\* the number of the message of u being handled, while it is not recorded
InFlightNumbers(u) ==
    IF cur.handler = "handle_message" /\ cur.user = u
          /\ (pc \in {"call", "append_user"} \/ ~is_bound(u))
    THEN <<NumberOf(cur.text)>> ELSE <<>>

\* recorded, in flight and waiting messages of u, oldest first
Chain(u) == LogNumbers(u) \o InFlightNumbers(u) \o QueueNumbers(u)

\* the number of the most recent message of u, 0 when none is left
LastNumber(u) == IF Chain(u) = <<>> THEN 0 ELSE Chain(u)[Len(Chain(u))]

\* in SpecQueue the endpoint answers every request
QueueOutcomes == { Responds(200, JsonObject("response" :> PyStr(HEY))) }

\* run_polling puts an update in the queue at any time, also during a handler
ReceiveQueue ==
    /\ Len(queue) < MaxQueue
    /\ \E u \in Users :
          \/ Enqueue(Update(u, "reset", <<>>, <<>>))
          \/ Enqueue(Update(u, "status", <<>>, <<>>))
          \/ Enqueue(Update(u, "set_ngrok", <<HTTPS_X \o <<u>> >>, <<>>))
          \/ /\ LastNumber(u) < MaxQueueMsgs
             /\ Enqueue(Update(u, "handle_message", <<>>, QueueText(u, LastNumber(u) + 1)))

CallQueue == handle_message_call(QueueOutcomes)

NextQueue ==
    \/ ReceiveQueue
    \/ set_ngrok
    \/ status
    \/ reset
    \/ handle_message
    \/ CallQueue
    \/ append_user
    \/ append_assistant
    \/ truncate
    \/ reply
    \/ Return

SpecQueue == Init /\ [][NextQueue]_vars

----------------------------------------------------------------------------
(* SpecLive: u1 is bound, u2 is not; messages arrive at any time and the   *)
(* handlers keep running.                                                  *)

\* the highest number a message gets in SpecLive
MaxLiveMsgs == 2

\* the endpoint answers, answers with an empty text, hangs or is unreachable
LiveOutcomes ==
    { Responds(200, JsonObject("response" :> PyStr(HEY))),
      Responds(200, JsonObject("response" :> PyStr(<<>>))),
      Raises("ReadTimeout"),
      Raises("ConnectionError") }

LiveMessage(u, n) == Update(u, "handle_message", <<>>, QueueText(u, n))

\* the state after u1 has sent /setngrok https://x
InitLive ==
    /\ user_data = [u \in Users |->
                       IF u = "u1"
                       THEN SetKey(EmptyDict, "ngrok_url", endpoint_of(strip_url(HTTPS_X)))
                       ELSE EmptyDict]
    /\ queue = <<>>
    /\ pc = "idle"
    /\ cur = NoUpdate
    /\ response = NoValue
    /\ calls = <<>>
    /\ sent = <<>>
    /\ log = [u \in Users |-> <<>>]

ReceiveLive ==
    \E u \in Users :
        /\ LastNumber(u) < MaxLiveMsgs
        /\ Enqueue(LiveMessage(u, LastNumber(u) + 1))

CallLive == handle_message_call(LiveOutcomes)

\* the steps of the handler of a message
RunLive ==
    \/ handle_message
    \/ CallLive
    \/ append_user
    \/ append_assistant
    \/ truncate
    \/ reply
    \/ Return

NextLive == ReceiveLive \/ RunLive

\* the event loop runs a started handler to its end, and requests.post
\* returns or raises within its timeout
SpecLive == InitLive /\ [][NextLive]_vars /\ WF_vars(RunLive)

----------------------------------------------------------------------------
(* The claims.                                                             *)

Min(a, b) == IF a <= b THEN a ELSE b

\* a message of a bound user is being handled, or has just been
HandlingMessage == cur.handler = "handle_message" /\ is_bound(cur.user)

\* handle_message has run to its end for a bound user
MessageHandled == pc = "done" /\ HandlingMessage

\* C1: whenever no message is half handled, every user's history holds at
\* most 20 records, whatever binds, resets and messages came before.
C1_HistoryAtMostMaxTurns ==
    pc \in {"idle", "done"} => \A u \in Users : Len(history(u)) <= MAX_TURNS

\* a message was handled for a user who had more than 20 records to keep
C1_Witness ==
    /\ MessageHandled
    /\ Len(log[cur.user]) > MAX_TURNS
    /\ Len(history(cur.user)) = MAX_TURNS

\* C2: after k messages handled since the last reset the history is the
\* last min(2k, 20) records of everything appended since then, in order.
C2_HistoryIsTailOfLog ==
    pc \in {"idle", "done"} =>
        \A u \in Users :
            LET h == history(u)
                l == log[u]
            IN  /\ Len(l) % 2 = 0
                /\ Len(h) = Min(Len(l), 20)
                /\ \A i \in 1..Len(h) : h[i] = l[Len(l) - Len(h) + i]

\* eleven messages were handled: the first exchange is gone
C2_Witness ==
    /\ MessageHandled
    /\ Len(log[cur.user]) = 22
    /\ history(cur.user)[1] = log[cur.user][3]
    /\ history(cur.user)[1] = <<"Akhil: ", "m", "2">>

\* C3: a message of a user with no endpoint is answered with the guidance
\* to bind; the handler ends there, sends no request and keeps no history.
C3_UnboundMessage ==
    (cur.handler = "handle_message" /\ ~is_bound(cur.user)) =>
        /\ pc = "done"
        /\ sent = <<PyStr(NEED_SETUP_TEXT)>>
        /\ calls = <<>>
        /\ history(cur.user) = <<>>
        /\ log[cur.user] = <<>>

\* an unbound user's message was answered while the other user is bound
\* and has a history
C3_Witness ==
    /\ pc = "done"
    /\ cur.handler = "handle_message"
    /\ ~is_bound(cur.user)
    /\ sent = <<PyStr(NEED_SETUP_TEXT)>>
    /\ \E u \in Users : is_bound(u) /\ history(u) # <<>>

\* C4: once a message of a bound user is handled, the last two records are
\* the user's message and then the assistant's record, whose text is the
\* very text that was sent as the reply.
C4_TwoRecordsAppended ==
    MessageHandled =>
        LET h == history(cur.user)
        IN  /\ Len(h) >= 2
            /\ h[Len(h) - 1] = <<"Akhil: ">> \o cur.text
            /\ Head(h[Len(h)]) = "Advi: "
            /\ sent = <<PyStr(Tail(h[Len(h)]))>>

\* what C5 expects the request to carry: the persona, the last
\* min(6, len) records of everything said so far, the input, the cue
C5_ExpectedPrompt(l, txt) ==
    LET n == Min(6, Len(l))
    IN  SYSTEM_PROMPT \o <<"\n\n">>
            \o Concat([i \in 1..n |-> l[Len(l) - n + i] \o <<"\n\n">>])
            \o <<"Akhil: ">> \o txt \o <<"\nAdvi: ">>

\* C5: right after the call, before anything is appended, the prompt that
\* was sent is the persona, the most recent min(6, len) records oldest
\* first, the new input and the open cue; the record of the message being
\* handled is not among the records read.
C5_PromptIsWindow ==
    pc = "append_user" =>
        /\ Len(calls) = 1
        /\ Len(log[cur.user]) % 2 = 0
        /\ LastN(log[cur.user], MAX_TURNS) = history(cur.user)
        /\ calls[1].request.prompt = C5_ExpectedPrompt(log[cur.user], cur.text)

\* the prompt of the eleventh message: six of twenty records were sent
C5_Witness ==
    /\ pc = "append_user"
    /\ Len(history(cur.user)) = 20
    /\ calls[1].request.prompt =
          SYSTEM_PROMPT \o <<"\n\n">>
             \o Concat([i \in 1..6 |-> history(cur.user)[14 + i] \o <<"\n\n">>])
             \o <<"Akhil: ", "m", "1", "1", "\nAdvi: ">>

\* C6: whatever the network does, call_ollama returns a non-empty string.
C6_ReturnsNonEmptyString ==
    response # NoValue => response.t = "str" /\ response.v # <<>>

\* what the network did in the call made for cur
Outcome == calls[1].outcome

\* C7: a timeout (also a connect timeout) gives the took-too-long text;
\* otherwise a connection failure gives the three-causes text; a status
\* other than 200 gives the trouble text; a 200 with a non-empty text in
\* the response field gives that text; any other failure gives the
\* something-went-wrong text.
C7_Classification ==
    calls # <<>> =>
        /\ Outcome.raises \in {"ReadTimeout", "ConnectTimeout"}
              => response = PyStr(TOO_LONG_TEXT)
        /\ Outcome.raises \in {"ConnectionError", "SSLError"}
              => response = PyStr(CANT_CONNECT_TEXT)
        /\ Outcome.raises \in {"InvalidSchema", "TooManyRedirects"}
              => response = PyStr(WENT_WRONG_TEXT)
        /\ (Outcome.raises = "none" /\ Outcome.status_code # 200)
              => response = PyStr(TROUBLE_TEXT)
        /\ (Outcome.raises = "none" /\ Outcome.status_code = 200
                /\ Outcome.body.json # "object")
              => response = PyStr(WENT_WRONG_TEXT)
        /\ (Outcome.raises = "none" /\ Outcome.status_code = 200
                /\ Outcome.body = JsonObject("response" :> PyStr(HEY)))
              => response = PyStr(HEY)

\* a connect timeout, which is a connection failure too, was answered
\* with the took-too-long text
C7_Witness ==
    /\ calls # <<>>
    /\ Outcome = Raises("ConnectTimeout")
    /\ response = PyStr(TOO_LONG_TEXT)
    /\ pc = "done"

\* C8: a 200 whose response field is missing or is the empty string is
\* answered with the could-not-think-of-a-reply text, and that text is the
\* assistant's record.
C8_EmptyReply ==
    (MessageHandled /\ Outcome.raises = "none" /\ Outcome.status_code = 200
        /\ Outcome.body.json = "object"
        /\ (HasKey(Outcome.body.obj, "response")
               => Outcome.body.obj["response"] = PyStr(<<>>)))
    => /\ sent = <<PyStr(NO_REPLY_TEXT)>>
       /\ history(cur.user)[Len(history(cur.user))] = <<"Advi: ">> \o NO_REPLY_TEXT

\* /setngrok was given an argument and has answered
BindAnswered == pc = "done" /\ cur.handler = "set_ngrok" /\ cur.args # <<>>

\* /setngrok stored an endpoint
BindAccepted ==
    BindAnswered /\ sent # <<PyStr(INVALID_URL_TEXT)>>

\* C9: an argument that does not begin with http:// or https:// is
\* answered with the invalid-URL text.
C9_RejectsOtherPrefixes ==
    (BindAnswered /\ ~startswith(cur.args[1], SCHEME_HTTP)
        /\ ~startswith(cur.args[1], SCHEME_HTTPS))
    => sent = <<PyStr(INVALID_URL_TEXT)>>

\* the argument without its last character when that is a slash
C10_OneSlashTrimmed(raw) ==
    IF raw # <<>> /\ raw[Len(raw)] = "/" THEN SubSeq(raw, 1, Len(raw) - 1) ELSE raw

\* the longest prefix of the argument that does not end with a slash
C10_AllSlashesTrimmed(raw) ==
    LET k == CHOOSE n \in 0..Len(raw) :
                 /\ n > 0 => raw[n] # "/"
                 /\ \A i \in (n + 1)..Len(raw) : raw[i] = "/"
    IN  SubSeq(raw, 1, k)

\* C10 as stated, for arguments that begin with http:// or https://: the
\* stored endpoint is the argument with one trailing slash trimmed,
\* followed by /api/generate.
C10_EndpointTrimsOneSlash ==
    (BindAccepted /\ (startswith(cur.args[1], SCHEME_HTTP)
                        \/ startswith(cur.args[1], SCHEME_HTTPS))) =>
        /\ is_bound(cur.user)
        /\ user_data[cur.user]["ngrok_url"]
              = C10_OneSlashTrimmed(cur.args[1]) \o API_GENERATE

\* C10 amended: the stored endpoint is the argument with every trailing
\* slash trimmed, followed by /api/generate; it is the only endpoint of the
\* user, and a request is sent to the endpoint stored at that time.
C10_EndpointTrimsEverySlash ==
    /\ BindAccepted =>
          /\ is_bound(cur.user)
          /\ user_data[cur.user]["ngrok_url"]
                = C10_AllSlashesTrimmed(cur.args[1]) \o API_GENERATE
    /\ (HandlingMessage /\ calls # <<>>) =>
          calls[1].request.url = user_data[cur.user]["ngrok_url"]

\* a user who has talked through one endpoint bound another one, given
\* with two trailing slashes
C10_Witness ==
    /\ BindAccepted
    /\ log[cur.user] # <<>>
    /\ cur.args[1] = SCHEME_HTTP \o <<"x", "/", "/">>
    /\ user_data[cur.user]["ngrok_url"] = SCHEME_HTTP \o <<"x">> \o API_GENERATE

\* the endpoint without the /api/generate that set_ngrok put at its end
C11_BoundUrl(endpoint) == SubSeq(endpoint, 1, Len(endpoint) - Len(API_GENERATE))

\* C11: /status of a user bound with a URL that begins with http:// or
\* https:// reports that URL as set_ngrok kept it (the stored endpoint
\* without its final /api/generate), also when the URL's own path contains
\* /api/generate; /status of a user never bound reports not-bound.
C11_StatusReportsBoundUrl ==
    (pc = "done" /\ cur.handler = "status") =>
        IF is_bound(cur.user)
        THEN LET endpoint == user_data[cur.user]["ngrok_url"]
             IN  (startswith(endpoint, SCHEME_HTTP) \/ startswith(endpoint, SCHEME_HTTPS))
                    => sent = <<PyStr(<<"Connected to: ">> \o C11_BoundUrl(endpoint)
                                        \o <<" Everything's working!">>)>>
        ELSE sent = <<PyStr(NOT_SET_UP_TEXT)>>

\* what /reset may do to the dict of the user who sent it: the history is
\* empty afterwards and the endpoint is as it was
C12_ResetStep ==
    \A u \in Users :
        (reset /\ Head(queue).user = u) =>
            /\ HasKey(user_data'[u], "conversation_history")
                  => user_data'[u]["conversation_history"] = <<>>
            /\ HasKey(user_data'[u], "ngrok_url") <=> HasKey(user_data[u], "ngrok_url")
            /\ HasKey(user_data[u], "ngrok_url")
                  => user_data'[u]["ngrok_url"] = user_data[u]["ngrok_url"]

\* the first message after a reset (nothing appended since) is sent with
\* no record between the persona and the input
C12_FreshPrompt ==
    (pc = "append_user" /\ log[cur.user] = <<>>) =>
        /\ history(cur.user) = <<>>
        /\ calls[1].request.prompt =
              SYSTEM_PROMPT \o <<"\n\n", "Akhil: ">> \o cur.text \o <<"\nAdvi: ">>
        /\ calls[1].request.url = user_data[cur.user]["ngrok_url"]

\* C12: /reset leaves the user's history empty and the endpoint exactly as
\* it was, bound or not; the next message of a bound user is sent with an
\* empty context window to that endpoint.
C12_ResetKeepsEndpoint == [][C12_ResetStep]_vars /\ []C12_FreshPrompt

\* /reset was handled for a bound user who had talked before; the history
\* list is there and empty, the endpoint is still there
C12_Witness ==
    /\ pc = "done"
    /\ cur.handler = "reset"
    /\ is_bound(cur.user)
    /\ HasKey(user_data[cur.user], "conversation_history")
    /\ history(cur.user) = <<>>

\* C13: a message of a bound user causes exactly one request, whatever
\* the network does with it; nothing is sent a second time, and commands
\* and messages of unbound users cause none.
C13_OneRequestPerMessage ==
    /\ Len(calls) <= 1
    /\ (HandlingMessage /\ pc \in {"append_user", "append_assistant", "truncate", "reply", "done"})
          => Len(calls) = 1
    /\ ~HandlingMessage => calls = <<>>

\* a message whose only request timed out was answered
C13_Witness ==
    /\ MessageHandled
    /\ Len(calls) = 1
    /\ Outcome = Raises("ReadTimeout")
    /\ sent = <<PyStr(TOO_LONG_TEXT)>>

\* C14: the messages of one user are handled one after the other in the order
\* they arrived, also when a later one arrives while an earlier one is being
\* handled.  Recorded, in-flight and waiting messages of a user carry
\* consecutive numbers, so none is lost, repeated or overtaken; only one
\* message is in flight, and no step of another message falls between its
\* request and its two appends: when the request has been made, the log holds
\* both records of every earlier message, the prompt is built from that log,
\* and the message before it in the log is its predecessor.
C14_InOrder ==
    \A u \in Users :
        /\ \A i \in 2..Len(Chain(u)) : Chain(u)[i] = Chain(u)[i - 1] + 1
        /\ (pc \in {"idle", "call", "append_user", "done"}) => Len(log[u]) % 2 = 0
        /\ (pc = "append_user" /\ cur.user = u) =>
              /\ calls[1].request.prompt = C5_ExpectedPrompt(log[u], cur.text)
              /\ log[u] # <<>> =>
                    /\ log[u][Len(log[u]) - 1] =
                           user_record(QueueText(u, NumberOf(cur.text) - 1))
                    /\ log[u][Len(log[u])][1] = "Advi: "
        /\ (MessageHandled /\ cur.user = u) =>
              /\ log[u][Len(log[u]) - 1] = user_record(cur.text)
              /\ log[u][Len(log[u])] = assistant_record(response)

\* the request of the second message of u1 has been made from the log of the
\* first, while a message of u2 and a reset of u1 are waiting
C14_Witness ==
    /\ pc = "append_user"
    /\ cur.user = "u1"
    /\ cur.text = QueueText("u1", 2)
    /\ log["u1"] = <<user_record(QueueText("u1", 1)), assistant_record(PyStr(HEY))>>
    /\ queue = <<Update("u2", "handle_message", <<>>, QueueText("u2", 1)),
                 Update("u1", "reset", <<>>, <<>>)>>

\* C15: while the call of one user's message is pending, an update of another
\* user that waits in the queue can be handled: some handler is able to take
\* it before the call has returned.
C15_OtherSessionsProgress ==
    (pc = "call" /\ queue # <<>> /\ Head(queue).user # cur.user) =>
        ENABLED (set_ngrok \/ status \/ reset \/ handle_message)

\* C16 as stated: at every point of the handling of a message, also between
\* the two appends, every history holds at most 20 records.
C16_CapAfterEachAppend == \A u \in Users : Len(history(u)) <= MAX_TURNS

\* C16 amended: the cap is enforced once per message, after both appends.
\* The history of the user whose message is handled holds at most 21 records
\* after the first append and at most 22 after the second, until the
\* truncation; at every other point, and for every other user, at most 20.
C16_CapAfterBothAppends ==
    \A u \in Users :
        LET over == IF u # cur.user THEN 0
                    ELSE IF pc = "append_assistant" THEN 1
                    ELSE IF pc = "truncate" THEN 2
                    ELSE 0
        IN  Len(history(u)) <= MAX_TURNS + over

\* a full history has received both records of one more message and is not
\* truncated yet
C16_Witness == pc = "truncate" /\ Len(history(cur.user)) = MAX_TURNS + 2

\* C17: between message handlings a history is made of whole pairs: its length
\* is even, odd positions hold user turns and even positions assistant turns,
\* and it is what is left of the log after dropping whole pairs from the front;
\* so the history and the 6-record window begin with a user turn, also in the
\* prompt that was sent.
C17_AlternatingPairs ==
    /\ pc \in {"idle", "done"} =>
          \A u \in Users :
              HasKey(user_data[u], "conversation_history") =>
                  LET h == history(u)
                  IN  /\ Len(h) % 2 = 0
                      /\ (Len(log[u]) - Len(h)) % 2 = 0
                      /\ h = LastN(log[u], Len(h))
                      /\ \A i \in 1..Len(h) :
                            h[i][1] = IF i % 2 = 1 THEN "Akhil: " ELSE "Advi: "
                      /\ h # <<>> => context_window(h)[1][1] = "Akhil: "
    /\ pc = "append_user" =>
          calls[1].request.prompt[Len(SYSTEM_PROMPT) + 2] = "Akhil: "

\* a pair has been evicted from a full history
C17_Witness ==
    /\ pc = "idle"
    /\ \E u \in Users :
          /\ Len(history(u)) = MAX_TURNS
          /\ Len(log[u]) = MAX_TURNS + 2
          /\ history(u)[1] = log[u][3]
          /\ history(u)[1][1] = "Akhil: "

\* the update of message n of user u waits in the queue
C18_Waiting(u, n) == \E i \in 1..Len(queue) : queue[i] = LiveMessage(u, n)

\* the handler of message n of user u has run to its end with one reply
C18_Replied(u, n) == pc = "done" /\ cur = LiveMessage(u, n) /\ Len(sent) = 1

C19_BindStep ==
    \A u \in Users :
        (set_ngrok /\ Head(queue).user = u) =>
            /\ DOMAIN user_data'[u] \subseteq DOMAIN user_data[u] \cup {"ngrok_url"}
            /\ HasKey(user_data'[u], "conversation_history")
                  <=> HasKey(user_data[u], "conversation_history")
            /\ HasKey(user_data[u], "conversation_history") =>
                  user_data'[u]["conversation_history"] = user_data[u]["conversation_history"]
            /\ (Head(queue).args = <<>> \/ sent' = <<PyStr(INVALID_URL_TEXT)>>) =>
                  user_data'[u] = user_data[u]
            /\ (Head(queue).args # <<>> /\ sent' # <<PyStr(INVALID_URL_TEXT)>>) =>
                  HasKey(user_data'[u], "ngrok_url")

\* the prompt of a message is built from the history stored at that moment
\* and goes to the endpoint stored at that moment
C19_PromptFromStoredHistory ==
    pc = "append_user" =>
        /\ calls[1].request.prompt = C5_ExpectedPrompt(history(cur.user), cur.text)
        /\ calls[1].request.url = user_data[cur.user]["ngrok_url"]

\* C19: a run of /setngrok changes nothing of the session but the endpoint.
\* Without an argument or with a rejected one it leaves the session as it
\* was; when it stores an endpoint the history stays as it was, and the next
\* prompt, sent to the stored endpoint, is built from that history.
C19_BindChangesOnlyEndpoint ==
    [][C19_BindStep]_vars /\ []C19_PromptFromStoredHistory

\* a second endpoint has been bound over a history gathered before
C19_Witness ==
    /\ pc = "done"
    /\ cur.handler = "set_ngrok"
    /\ sent = <<PyStr(connected_text(HTTP_Y))>>
    /\ user_data[cur.user]["ngrok_url"] = endpoint_of(HTTP_Y)
    /\ Len(history(cur.user)) >= 2
    /\ history(cur.user) = log[cur.user]

\* the user whose update is being handled, or is taken next when no handler
\* is running
C20_Acting(u) ==
    IF pc = "idle" THEN queue # <<>> /\ Head(queue).user = u ELSE cur.user = u

\* a step changes the session of the acting user only
C20_Step == \A u \in Users : user_data'[u] # user_data[u] => C20_Acting(u)

\* the text s names no user but u
C20_Own(s, u) == \A i \in 1..Len(s) : s[i] \notin Users \ {u}

\* every stored record and endpoint is the user's own, and a request carries
\* the sender's records and goes to the sender's endpoint
C20_OwnData ==
    /\ \A u \in Users :
          /\ is_bound(u) => C20_Own(user_data[u]["ngrok_url"], u)
          /\ HasKey(user_data[u], "conversation_history") =>
                \A i \in 1..Len(history(u)) : C20_Own(history(u)[i], u)
    /\ \A i \in 1..Len(calls) :
          /\ C20_Own(calls[i].request.prompt, cur.user)
          /\ calls[i].request.url = user_data[cur.user]["ngrok_url"]

\* C20: whatever the order in which updates of different users arrive and are
\* handled, an operation of one user (bind, reset, status, message) leaves
\* the endpoint and the history of every other user as they were, and a
\* prompt holds no record of another user.
C20_SessionsIsolated == [][C20_Step]_vars /\ []C20_OwnData

\* the request of u1's second message has been made while u2 has an endpoint
\* and a history of its own and an update of u2 is waiting
C20_Witness ==
    /\ pc = "append_user"
    /\ cur.user = "u1"
    /\ Len(history("u1")) = 2
    /\ is_bound("u2")
    /\ Len(history("u2")) = 2
    /\ queue # <<>>
    /\ Head(queue).user = "u2"

====
